---- MODULE Spec2Model ----
(***************************************************************************)
(* Model of public/script.js: the chat page's theme toggle, its markdown   *)
(* renderer (parseMarkdown) and the form's submit handler with the request *)
(* it awaits.  Strings are sequences of one-character strings.             *)
(***************************************************************************)
EXTENDS Integers, Sequences, FiniteSets, TLC

(* ------------------------------------------------------------------ *)
(* Strings                                                            *)
(* ------------------------------------------------------------------ *)

\* The fixed texts of the page and the markup parseMarkdown generates.
ThinkingText == <<"T", "h", "i", "n", "k", "i", "n", "g", ".", ".", ".">>
NoResponseText == <<"S", "o", "r", "r", "y", ",", " ", "n", "o", " ", "r", "e", "s", "p", "o", "n", "s", "e", " ", "r", "e", "c", "e", "i", "v", "e", "d", ".">>
FailedText == <<"F", "a", "i", "l", "e", "d", " ", "t", "o", " ", "g", "e", "t", " ", "r", "e", "s", "p", "o", "n", "s", "e", " ", "f", "r", "o", "m", " ", "s", "e", "r", "v", "e", "r", ".">>
AmpEntity == <<"&", "a", "m", "p", ";">>
LtEntity == <<"&", "l", "t", ";">>
GtEntity == <<"&", "g", "t", ";">>
StrongOpen == <<"<", "s", "t", "r", "o", "n", "g", ">">>
StrongClose == <<"<", "/", "s", "t", "r", "o", "n", "g", ">">>
EmOpen == <<"<", "e", "m", ">">>
EmClose == <<"<", "/", "e", "m", ">">>
LiOpen == <<"<", "l", "i", ">">>
LiClose == <<"<", "/", "l", "i", ">">>
UlOpen == <<"<", "u", "l", ">">>
UlClose == <<"<", "/", "u", "l", ">">>
POpen == <<"<", "p", ">">>
PClose == <<"<", "/", "p", ">">>

\* The regular expressions' character classes: \s, \d and the line
\* terminators that "." refuses and that "^" and "$" (flag m) anchor on.
IsSpace(c) == c \in {" ", "\t", "\n", "\r"}
IsDigit(c) == c \in {"0", "1", "2", "3", "4", "5", "6", "7", "8", "9"}
IsLineTerminator(c) == c \in {"\n", "\r"}

\* s[from..to], empty when from > to.
Slice(s, from, to) == IF from > to THEN <<>> ELSE SubSeq(s, from, to)

\* Does pat occur in s at position i ?
MatchesAt(s, i, pat) ==
    /\ i >= 1
    /\ i + Len(pat) - 1 <= Len(s)
    /\ \A k \in 1..Len(pat) : s[i + k - 1] = pat[k]

\* String.prototype.includes
Includes(s, pat) == \E i \in 1..(Len(s) + 1) : MatchesAt(s, i, pat)

\* trim that trims nothing.
TrimNothing(s) == s

\* String.prototype.trim
Trim(s) ==
    LET keep == {i \in 1..Len(s) : ~IsSpace(s[i])}
    IN  IF keep = {} THEN <<>>
        ELSE LET lo == CHOOSE i \in keep : \A j \in keep : i <= j
                 hi == CHOOSE i \in keep : \A j \in keep : j <= i
             IN  SubSeq(s, lo, hi)

\* First position >= i of s that holds no white space (Len(s)+1 if none).
RECURSIVE SkipSpace(_, _)
SkipSpace(s, i) ==
    IF i <= Len(s) /\ IsSpace(s[i]) THEN SkipSpace(s, i + 1) ELSE i

\* First position >= i of s that holds no digit.
RECURSIVE SkipDigits(_, _)
SkipDigits(s, i) ==
    IF i <= Len(s) /\ IsDigit(s[i]) THEN SkipDigits(s, i + 1) ELSE i

\* First position >= i of s that holds a line terminator (Len(s)+1 if none):
\* where a greedy ".*" started at i stops, and where "$" then matches.
RECURSIVE LineEnd(_, _)
LineEnd(s, i) ==
    IF i <= Len(s) /\ ~IsLineTerminator(s[i]) THEN LineEnd(s, i + 1) ELSE i

(* ------------------------------------------------------------------ *)
(* parseMarkdown                                                      *)
(* ------------------------------------------------------------------ *)

\* text.replace(/c/g, rep) for a one-character pattern c.
RECURSIVE ReplaceChar(_, _, _)
ReplaceChar(s, c, rep) ==
    IF s = <<>> THEN <<>>
    ELSE (IF Head(s) = c THEN rep ELSE <<Head(s)>>) \o ReplaceChar(Tail(s), c, rep)

\* EscapeHtml without its last replace.
EscapeHtmlNoGt(text) ==
    ReplaceChar(ReplaceChar(text, "&", AmpEntity), "<", LtEntity)

\* Step 1: & first, then <, then >.
EscapeHtml(text) ==
    ReplaceChar(ReplaceChar(ReplaceChar(text, "&", AmpEntity), "<", LtEntity), ">", GtEntity)

\* The positions j >= from at which the closing marker may match after a
\* lazy (.*?) that started at from: the marker stands at j and no line
\* terminator lies in from..j-1.
Closers(s, from, marker) ==
    {j \in from..Len(s) :
        /\ MatchesAt(s, j, marker)
        /\ \A k \in from..(j - 1) : ~IsLineTerminator(s[k])}

\* s.replace(/marker(.*?)marker/g, open $1 close), scanning from i: the
\* leftmost opener that has a closer, the nearest closer for it, then on
\* from behind the closer.
RECURSIVE ReplaceSpans(_, _, _, _, _)
ReplaceSpans(s, i, marker, open, close) ==
    IF i > Len(s) THEN <<>>
    ELSE LET from == i + Len(marker)
             cl   == Closers(s, from, marker)
         IN  IF MatchesAt(s, i, marker) /\ cl # {}
             THEN LET j == CHOOSE x \in cl : \A y \in cl : x <= y
                  IN  open \o Slice(s, from, j - 1) \o close
                        \o ReplaceSpans(s, j + Len(marker), marker, open, close)
             ELSE <<s[i]>> \o ReplaceSpans(s, i + 1, marker, open, close)

\* Step 2: /\*\*(.*?)\*\*/g
Bold(s) == ReplaceSpans(s, 1, <<"*", "*">>, StrongOpen, StrongClose)

\* Step 3: /\*(.*?)\*/g
Italic(s) == ReplaceSpans(s, 1, <<"*">>, EmOpen, EmClose)

\* "^" under flag m: the start of the text or just behind a line terminator.
AtLineStart(s, i) == i = 1 \/ IsLineTerminator(s[i - 1])

\* Position behind the list marker that stands at k, or 0 when none does:
\* "-" for an unordered item, \d+\. for an ordered one.
AfterMarker(s, k, ordered) ==
    IF ordered
    THEN LET d == SkipDigits(s, k)
         IN  IF d > k /\ d <= Len(s) /\ s[d] = "." THEN d + 1 ELSE 0
    ELSE IF k <= Len(s) /\ s[k] = "-" THEN k + 1 ELSE 0

\* s.replace(/^\s*MARKER\s+(.*)$/gm, '<li>$1</li>'), scanning from i.  \s
\* also takes line terminators, so the white space before and behind the
\* marker may run over line ends.
RECURSIVE ReplaceItems(_, _, _)
ReplaceItems(s, i, ordered) ==
    IF i > Len(s) THEN <<>>
    ELSE LET k == SkipSpace(s, i)
             m == AfterMarker(s, k, ordered)
             e == SkipSpace(s, m)
             f == LineEnd(s, e)
         IN  IF AtLineStart(s, i) /\ m # 0 /\ e > m
             THEN LiOpen \o Slice(s, e, f - 1) \o LiClose \o ReplaceItems(s, f, ordered)
             ELSE <<s[i]>> \o ReplaceItems(s, i + 1, ordered)

\* Step 4
UnorderedList(s) == ReplaceItems(s, 1, FALSE)

\* Step 5
OrderedList(s) == ReplaceItems(s, 1, TRUE)

\* safeText.split('\n')
RECURSIVE Split(_)
Split(s) ==
    LET nl == {i \in 1..Len(s) : s[i] = "\n"}
    IN  IF nl = {} THEN <<s>>
        ELSE LET p == CHOOSE i \in nl : \A j \in nl : i <= j
             IN  <<Slice(s, 1, p - 1)>> \o Split(Slice(s, p + 1, Len(s)))

\* WalkLine that wraps every list line in a list of its own.
WalkLinePerItem(st, line) ==
    IF Includes(line, LiOpen)
    THEN [html |-> st.html \o UlOpen \o line \o UlClose, inList |-> FALSE]
    ELSE [html   |-> IF Trim(line) # <<>> THEN st.html \o POpen \o line \o PClose
                     ELSE st.html,
          inList |-> FALSE]

\* One round of lines.forEach: st = [html, inList] before the line.
WalkLine(st, line) ==
    IF Includes(line, LiOpen)
    THEN [html   |-> (IF st.inList THEN st.html ELSE st.html \o UlOpen) \o line,
          inList |-> TRUE]
    ELSE LET closed == IF st.inList THEN st.html \o UlClose ELSE st.html
         IN  [html   |-> IF Trim(line) # <<>> THEN closed \o POpen \o line \o PClose
                         ELSE closed,
              inList |-> FALSE]

\* lines.forEach over lines[i..], from state st.
RECURSIVE WalkLines(_, _, _)
WalkLines(lines, i, st) ==
    IF i > Len(lines) THEN st
    ELSE WalkLines(lines, i + 1, WalkLine(st, lines[i]))

\* The end of the walk without the closing of an open list.
CloseListNever(st) == st.html

\* if (inList) html += '</ul>' behind the walk.
CloseList(st) == IF st.inList THEN st.html \o UlClose ELSE st.html

\* Step 6 and the closing of a list left open.
Blocks(safeText) ==
    CloseList(WalkLines(Split(safeText), 1, [html |-> <<>>, inList |-> FALSE]))

parseMarkdown(text) ==
    IF text = <<>> THEN <<>>
    ELSE Blocks(OrderedList(UnorderedList(Italic(Bold(EscapeHtml(text))))))

(* ------------------------------------------------------------------ *)
(* Bounds and inputs                                                  *)
(* ------------------------------------------------------------------ *)

\* Accepted submissions per run.
MaxCycles == 2

\* What the user may type: nothing, white space only, plain text, text
\* with white space around it.
Inputs == { <<>>, <<" ">>, <<"H", "i">>, <<" ", "y", "o", " ">> }

\* Values of a parsed body's result property.
Undefined == [t |-> "undefined", s |-> <<>>, n |-> 0]
Str(s) == [t |-> "string", s |-> s, n |-> 0]
Num(n) == [t |-> "number", s |-> <<>>, n |-> n]

\* What response.json() may resolve with: null, {}, {result: ""},
\* {result: "**Hi**"}, {result: 42}.
Null == [t |-> "null", result |-> Undefined]
Obj(r) == [t |-> "object", result |-> r]
Bodies == { Null, Obj(Undefined), Obj(Str(<<>>)),
            Obj(Str(<<"*", "*", "H", "i", "*", "*">>)), Obj(Num(42)) }

\* No body has been parsed (yet), or parsing it failed.
NoData == [t |-> "none", result |-> Undefined]
Unparsable == [t |-> "unparsable", result |-> Undefined]

\* JavaScript truthiness of a result value.
Truthy(v) ==
    CASE v.t = "string" -> v.s # <<>>
      [] v.t = "number" -> v.n # 0
      [] OTHER -> FALSE

(* ------------------------------------------------------------------ *)
(* JSON.stringify of the request body                                 *)
(* ------------------------------------------------------------------ *)

\* A string's characters as JSON writes them between the quotes.
RECURSIVE JsonEscape(_)
JsonEscape(s) ==
    IF s = <<>> THEN <<>>
    ELSE (CASE Head(s) = "\"" -> <<"\\", "\"">>
            [] Head(s) = "\\" -> <<"\\", "\\">>
            [] Head(s) = "\n" -> <<"\\", "n">>
            [] Head(s) = "\r" -> <<"\\", "r">>
            [] Head(s) = "\t" -> <<"\\", "t">>
            [] OTHER -> <<Head(s)>>) \o JsonEscape(Tail(s))

JsonString(s) == <<"\"">> \o JsonEscape(s) \o <<"\"">>

RoleChars(role) ==
    IF role = "user" THEN <<"u", "s", "e", "r">> ELSE <<"m", "o", "d", "e", "l">>

\* {"role":"...","text":"..."}
JsonTurn(turn) ==
    <<"{", "\"", "r", "o", "l", "e", "\"", ":">> \o JsonString(RoleChars(turn.role))
      \o <<",", "\"", "t", "e", "x", "t", "\"", ":">> \o JsonString(turn.text) \o <<"}">>

RECURSIVE JsonTurns(_, _)
JsonTurns(conv, i) ==
    IF i > Len(conv) THEN <<>>
    ELSE (IF i > 1 THEN <<",">> ELSE <<>>) \o JsonTurn(conv[i]) \o JsonTurns(conv, i + 1)

\* JSON.stringify({ conversation: conv })
Stringify(conv) ==
    <<"{", "\"", "c", "o", "n", "v", "e", "r", "s", "a", "t", "i", "o", "n", "\"", ":", "[">>
      \o JsonTurns(conv, 1) \o <<"]", "}">>

(* ------------------------------------------------------------------ *)
(* State                                                              *)
(* ------------------------------------------------------------------ *)

VARIABLES
    conversationHelper,  \* the history, a sequence of [role, text]
    chatBox,             \* the message divs of #chat-box, in document order
    inputValue,          \* userInput.value
    inputDisabled,       \* userInput.disabled
    submitDisabled,      \* submitButton.disabled
    focus,               \* which element holds the focus: "body" or "input"
    calls,               \* the submit handler's activations that reached fetch
    dataTheme,           \* body's data-theme attribute
    storedTheme,         \* localStorage's item 'theme'
    toggleText,          \* themeToggle.textContent
    lastEvent,           \* the event the page handled last
    render               \* a call of parseMarkdown followed step by step

vars == <<conversationHelper, chatBox, inputValue, inputDisabled, submitDisabled,
          focus, calls, dataTheme, storedTheme, toggleText, lastEvent, render>>

chatVars == <<conversationHelper, chatBox, inputValue, inputDisabled, submitDisabled,
              focus, calls>>

themeVars == <<dataTheme, storedTheme, toggleText>>

(* ------------------------------------------------------------------ *)
(* Theme                                                              *)
(* ------------------------------------------------------------------ *)

\* localStorage.getItem's answer for a key that was never set.
NoItem == "null"

Icon(themeName) == IF themeName = "dark" THEN "sun" ELSE "moon"

\* localStorage.getItem('theme') || 'light'
savedTheme(stored) == IF stored = NoItem THEN "light" ELSE stored

\* ThemeClick with the new theme fixed instead of flipped.
ThemeClickAlwaysDark(th) ==
    [attr |-> "dark", stored |-> "dark", icon |-> Icon("dark")]

\* The click handler of themeToggle, on th = [attr, stored, icon].
ThemeClick(th) ==
    LET currentTheme == th.attr
        newTheme     == IF currentTheme = "light" THEN "dark" ELSE "light"
    IN  [attr |-> newTheme, stored |-> newTheme, icon |-> Icon(newTheme)]

Theme == [attr |-> dataTheme, stored |-> storedTheme, icon |-> toggleText]

ToggleTheme ==
    /\ dataTheme' = ThemeClick(Theme).attr
    /\ storedTheme' = ThemeClick(Theme).stored
    /\ toggleText' = ThemeClick(Theme).icon
    /\ lastEvent' = "click"
    /\ UNCHANGED <<chatVars, render>>

(* ------------------------------------------------------------------ *)
(* The chat form                                                      *)
(* ------------------------------------------------------------------ *)

\* A message div: its role class, the property its content was set through
\* and the content.
Message(role, prop, value) == [role |-> role, prop |-> prop, value |-> value]

\* addMessage that renders every role's text as markdown.
addMessageAllMarkdown(box, role, text) ==
    Append(box, Message(role, "innerHTML", parseMarkdown(text)))

\* addMessage(role, text): the chat box with the new div appended.
addMessage(box, role, text) ==
    Append(box, IF role = "model"
                THEN Message(role, "innerHTML", parseMarkdown(text))
                ELSE Message(role, "textContent", text))

\* setFormState that switches the button only.
setFormStateButtonOnly(disabled) ==
    /\ inputDisabled' = inputDisabled
    /\ submitDisabled' = disabled
    /\ focus' = IF disabled THEN focus ELSE "input"

\* setFormState(disabled).  A disabled control cannot hold the focus.
setFormState(disabled) ==
    /\ inputDisabled' = disabled
    /\ submitDisabled' = disabled
    /\ focus' = IF disabled THEN "body" ELSE "input"

\* The user edits the input box, which a disabled box does not allow.
Type(v) ==
    /\ ~inputDisabled
    /\ inputValue' = v
    /\ lastEvent' = "input"
    /\ UNCHANGED <<conversationHelper, chatBox, inputDisabled, submitDisabled, focus, calls>>
    /\ UNCHANGED <<themeVars, render>>

\* push that puts the turn in front.
pushFront(conv, turn) == <<turn>> \o conv

\* conversationHelper.push(turn)
push(conv, turn) == Append(conv, turn)

\* A body that carries the latest turn only.
RequestBodyLastTurn(conv) == Stringify(<<conv[Len(conv)]>>)

\* The body option of the fetch call.
RequestBody(conv) == Stringify(conv)

\* The handler activation started by an accepted submission: the div of
\* its placeholder (thinkingMessageDiv, as a position in chatBox), the body
\* handed to fetch, where it stands (awaiting fetch, awaiting
\* response.json(), done) and what the two promises settled to.
NewCall(div, body) ==
    [div |-> div, body |-> body, pc |-> "fetch", fetch |-> "pending", data |-> NoData]

\* The submit handler up to its first await.
Submit ==
    LET text == Trim(inputValue)
    IN  /\ lastEvent' = "submit"
        /\ UNCHANGED <<themeVars, render>>
        /\ IF text = <<>>
           THEN UNCHANGED chatVars
           ELSE /\ Len(calls) < MaxCycles
                /\ chatBox' = Append(addMessage(chatBox, "user", text),
                                     Message("model", "textContent", ThinkingText))
                /\ conversationHelper' =
                       push(conversationHelper, [role |-> "user", text |-> text])
                /\ inputValue' = <<>>
                /\ setFormState(TRUE)
                /\ calls' = Append(calls, NewCall(Len(chatBox) + 2,
                                                  RequestBody(conversationHelper')))

\* SetContent that adds a new model div and leaves the placeholder.
SetContentAsNewDiv(box, div, prop, value) ==
    Append(box, Message("model", prop, value))

\* thinkingMessageDiv.textContent = value / .innerHTML = value
SetContent(box, div, prop, value) ==
    [box EXCEPT ![div] = Message(box[div].role, prop, value)]

\* catch without the finally block.
CatchOnly(i) ==
    /\ chatBox' = SetContent(chatBox, calls[i].div, "textContent", FailedText)
    /\ UNCHANGED <<conversationHelper, inputValue, inputDisabled, submitDisabled, focus>>

\* catch, then finally.
CatchFinally(i) ==
    /\ chatBox' = SetContent(chatBox, calls[i].div, "textContent", FailedText)
    /\ setFormState(FALSE)
    /\ UNCHANGED <<conversationHelper, inputValue>>

\* fetch rejects: the transport failed.
FetchReject(i) ==
    /\ calls[i].pc = "fetch"
    /\ calls' = [calls EXCEPT ![i].pc = "done", ![i].fetch = "rejected"]
    /\ CatchFinally(i)
    /\ lastEvent' = "settled"
    /\ UNCHANGED <<themeVars, render>>

\* FetchResolve without the check of response.ok.
FetchResolveUnchecked(i, ok) ==
    /\ calls[i].pc = "fetch"
    /\ lastEvent' = "settled"
    /\ UNCHANGED <<themeVars, render>>
    /\ calls' = [calls EXCEPT ![i].pc = "json",
                              ![i].fetch = IF ok THEN "ok" ELSE "notOk"]
    /\ UNCHANGED <<conversationHelper, chatBox, inputValue, inputDisabled,
                   submitDisabled, focus>>

\* fetch resolves with a response whose ok is as given.
FetchResolve(i, ok) ==
    /\ calls[i].pc = "fetch"
    /\ lastEvent' = "settled"
    /\ UNCHANGED <<themeVars, render>>
    /\ IF ok
       THEN /\ calls' = [calls EXCEPT ![i].pc = "json", ![i].fetch = "ok"]
            /\ UNCHANGED <<conversationHelper, chatBox, inputValue, inputDisabled,
                           submitDisabled, focus>>
       ELSE /\ calls' = [calls EXCEPT ![i].pc = "done", ![i].fetch = "notOk"]
            /\ CatchFinally(i)

\* response.json() rejects: the body is no JSON.
JsonReject(i) ==
    /\ calls[i].pc = "json"
    /\ calls' = [calls EXCEPT ![i].pc = "done", ![i].data = Unparsable]
    /\ CatchFinally(i)
    /\ lastEvent' = "settled"
    /\ UNCHANGED <<themeVars, render>>

\* response.json() resolves with data.
JsonResolve(i, data) ==
    /\ calls[i].pc = "json"
    /\ calls' = [calls EXCEPT ![i].pc = "done", ![i].data = data]
    /\ lastEvent' = "settled"
    /\ UNCHANGED <<themeVars, render>>
    /\ IF data.t # "null" /\ Truthy(data.result)
       THEN IF data.result.t = "string"
            THEN /\ chatBox' = SetContent(chatBox, calls[i].div, "innerHTML",
                                          parseMarkdown(data.result.s))
                 /\ conversationHelper' =
                        push(conversationHelper,
                             [role |-> "model", text |-> data.result.s])
                 /\ setFormState(FALSE)
                 /\ UNCHANGED inputValue
            ELSE \* text.replace is no function: parseMarkdown throws
                 CatchFinally(i)
       ELSE /\ chatBox' = SetContent(chatBox, calls[i].div, "textContent", NoResponseText)
            /\ setFormState(FALSE)
            /\ UNCHANGED <<conversationHelper, inputValue>>

(* ------------------------------------------------------------------ *)
(* Specification                                                      *)
(* ------------------------------------------------------------------ *)

\* The value of render while no call of parseMarkdown is followed.
NotRendering ==
    [pc |-> "none", text |-> <<>>, safeText |-> <<>>, lines |-> <<>>, idx |-> 0,
     html |-> <<>>, inList |-> FALSE]

Init ==
    /\ render = NotRendering
    /\ conversationHelper = <<>>
    /\ chatBox = <<>>
    /\ inputValue = <<>>
    /\ inputDisabled = FALSE
    /\ submitDisabled = FALSE
    /\ focus = "body"
    /\ calls = <<>>
    /\ storedTheme \in {NoItem, "light", "dark"}
    /\ dataTheme = savedTheme(storedTheme)
    /\ toggleText = Icon(savedTheme(storedTheme))
    /\ lastEvent = "load"

\* A pending promise settles.
Settle ==
    \E i \in DOMAIN calls :
        \/ FetchReject(i)
        \/ \E ok \in BOOLEAN : FetchResolve(i, ok)
        \/ JsonReject(i)
        \/ \E data \in Bodies : JsonResolve(i, data)

Next ==
    \/ ToggleTheme
    \/ \E v \in Inputs : Type(v)
    \/ Submit
    \/ \E i \in DOMAIN calls : FetchReject(i)
    \/ \E i \in DOMAIN calls : \E ok \in BOOLEAN : FetchResolve(i, ok)
    \/ \E i \in DOMAIN calls : JsonReject(i)
    \/ \E i \in DOMAIN calls : \E data \in Bodies : JsonResolve(i, data)

Spec == Init /\ [][Next]_vars

\* The transport settles every request it was handed.
FairSpec == Spec /\ WF_vars(Settle)

(* ------------------------------------------------------------------ *)
(* parseMarkdown step by step                                         *)
(* ------------------------------------------------------------------ *)

\* Longest text drawn character by character.
MaxLen == 3

\* Most lines of a text drawn line by line.
MaxLines == 3

\* The characters the steps of parseMarkdown tell apart, and a letter.
RenderAlphabet == {"&", "<", ">", "*", "-", " ", "\n", "a"}

\* Lines of the kinds the steps tell apart: empty, blank, plain, unordered
\* and ordered items, an item with emphasis, an unclosed bold opener.
RenderLineKinds ==
    { <<>>, <<" ">>, <<"a">>, <<"-", " ", "a">>, <<"1", ".", " ", "b">>,
      <<"-", " ", "*", "c", "*">>, <<"*", "*", "a">> }

\* lines joined by line feeds.
RECURSIVE JoinLines(_)
JoinLines(lines) ==
    IF lines = <<>> THEN <<>>
    ELSE IF Len(lines) = 1 THEN lines[1]
    ELSE lines[1] \o <<"\n">> \o JoinLines(Tail(lines))

\* The texts parseMarkdown is followed on.
RenderInputs ==
    (UNION {[1..n -> RenderAlphabet] : n \in 0..MaxLen})
      \cup {JoinLines(ls) : ls \in UNION {[1..n -> RenderLineKinds] : n \in 1..MaxLines}}

\* parseMarkdown(text) is called.
RenderInit ==
    /\ conversationHelper = <<>>
    /\ chatBox = <<>>
    /\ inputValue = <<>>
    /\ inputDisabled = FALSE
    /\ submitDisabled = FALSE
    /\ focus = "body"
    /\ calls = <<>>
    /\ storedTheme = NoItem
    /\ dataTheme = savedTheme(storedTheme)
    /\ toggleText = Icon(savedTheme(storedTheme))
    /\ lastEvent = "load"
    /\ \E text \in RenderInputs : render = [NotRendering EXCEPT !.pc = "start", !.text = text]

pageVars == <<chatVars, themeVars, lastEvent>>

\* if (!text) return ''; then step 1.
RenderEscape ==
    /\ render.pc = "start"
    /\ render' = IF render.text = <<>>
                 THEN [render EXCEPT !.pc = "done"]
                 ELSE [render EXCEPT !.pc = "escaped", !.safeText = EscapeHtml(render.text)]
    /\ UNCHANGED pageVars

\* Step 2.
RenderBold ==
    /\ render.pc = "escaped"
    /\ render' = [render EXCEPT !.pc = "bold", !.safeText = Bold(render.safeText)]
    /\ UNCHANGED pageVars

\* Step 3.
RenderItalic ==
    /\ render.pc = "bold"
    /\ render' = [render EXCEPT !.pc = "italic", !.safeText = Italic(render.safeText)]
    /\ UNCHANGED pageVars

\* Step 4.
RenderUnordered ==
    /\ render.pc = "italic"
    /\ render' = [render EXCEPT !.pc = "unordered",
                                !.safeText = UnorderedList(render.safeText)]
    /\ UNCHANGED pageVars

\* Step 5.
RenderOrdered ==
    /\ render.pc = "unordered"
    /\ render' = [render EXCEPT !.pc = "ordered", !.safeText = OrderedList(render.safeText)]
    /\ UNCHANGED pageVars

\* const lines = safeText.split('\n'); let html = ''; let inList = false;
RenderSplit ==
    /\ render.pc = "ordered"
    /\ render' = [render EXCEPT !.pc = "walk", !.lines = Split(render.safeText),
                                !.idx = 1, !.html = <<>>, !.inList = FALSE]
    /\ UNCHANGED pageVars

\* One round of lines.forEach.
RenderLine ==
    /\ render.pc = "walk"
    /\ render.idx <= Len(render.lines)
    /\ LET st == WalkLine([html |-> render.html, inList |-> render.inList],
                          render.lines[render.idx])
       IN  render' = [render EXCEPT !.idx = render.idx + 1, !.html = st.html,
                                    !.inList = st.inList]
    /\ UNCHANGED pageVars

\* if (inList) html += '</ul>'; return html;
RenderReturn ==
    /\ render.pc = "walk"
    /\ render.idx > Len(render.lines)
    /\ render' = [render EXCEPT !.pc = "done",
                                !.html = CloseList([html |-> render.html,
                                                    inList |-> render.inList])]
    /\ UNCHANGED pageVars

RenderNext ==
    \/ RenderEscape
    \/ RenderBold
    \/ RenderItalic
    \/ RenderUnordered
    \/ RenderOrdered
    \/ RenderSplit
    \/ RenderLine
    \/ RenderReturn

RenderSpec == RenderInit /\ [][RenderNext]_vars

\* Followed step by step, the call returns what parseMarkdown returns.
RenderAgrees == render.pc = "done" => render.html = parseMarkdown(render.text)

(* ------------------------------------------------------------------ *)
(* Properties                                                         *)
(* ------------------------------------------------------------------ *)

\* The activations whose request has not run to its end.
InFlight == {i \in DOMAIN calls : calls[i].pc # "done"}

Idle == InFlight = {}

\* Activation i reaches its end in this step.
Completes(i) == calls[i].pc # "done" /\ calls'[i].pc = "done"

\* Only the div of activation i changes in this step.
OnlyDivChanges(i) ==
    /\ Len(chatBox') = Len(chatBox)
    /\ \A k \in DOMAIN chatBox : k # calls[i].div => chatBox'[k] = chatBox[k]

ControlsEnabled == ~inputDisabled /\ ~submitDisabled

\* The fixed notices a cycle may leave in place of its placeholder.
IsNotice(m) ==
    m.role = "model" /\ m.prop = "textContent" /\ m.value \in {NoResponseText, FailedText}

NotNotice(m) == ~IsNotice(m)

\* How the page shows a turn of the history.
Shown(turn) ==
    IF turn.role = "user" THEN Message("user", "textContent", turn.text)
    ELSE Message("model", "innerHTML", parseMarkdown(turn.text))

\* C1 as stated: whenever no cycle is under way, the displayed list and the
\* history have the same length.
C1_SameLengthWhenIdle == Idle => Len(chatBox) = Len(conversationHelper)

\* C1 as amended: whenever no cycle is under way, the display holds two
\* messages per cycle; leaving out the fixed notices, it shows exactly the
\* turns of the history, in order; so the two lengths agree exactly when no
\* cycle ended with a notice.
C1_InSyncUpToNotices ==
    Idle =>
        LET shownTurns == SelectSeq(chatBox, NotNotice)
        IN  /\ Len(chatBox) = 2 * Len(calls)
            /\ Len(shownTurns) = Len(conversationHelper)
            /\ \A k \in DOMAIN conversationHelper :
                   shownTurns[k] = Shown(conversationHelper[k])
            /\ (Len(chatBox) = Len(conversationHelper)
                  <=> \A k \in DOMAIN chatBox : ~IsNotice(chatBox[k]))

\* Two cycles are over, one with a result and one with a notice.
C1_Witness ==
    /\ Idle
    /\ Len(calls) = 2
    /\ Len(conversationHelper) = 3
    /\ Len(chatBox) = 4

\* C2: at most one request is in flight, and while it is, the history is
\* the one that was sent and no later request exists.
C2_SingleFlight ==
    /\ Cardinality(InFlight) <= 1
    /\ \A i \in InFlight :
           /\ i = Len(calls)
           /\ calls[i].body = Stringify(conversationHelper)

\* A submit event was handled between the two awaits of a cycle.
C2_Witness ==
    \E i \in InFlight : calls[i].pc = "json" /\ lastEvent = "submit"

\* C3: every cycle under way leads to the idle page with both controls
\* enabled and the focus on the input, and the step that ends a cycle always
\* leaves the page so.
C3_ReturnsToIdle ==
    /\ [][\A i \in DOMAIN calls :
            Completes(i) => (ControlsEnabled /\ focus = "input" /\ InFlight = {})']_vars
    /\ (InFlight # {}) ~> (Idle /\ ControlsEnabled /\ focus = "input")

\* Two cycles have failed, one in the transport and one on an unparsable
\* body, and the page is ready again.
C3_Witness ==
    /\ Idle /\ ControlsEnabled /\ focus = "input"
    /\ Len(calls) = 2
    /\ calls[1].fetch = "rejected"
    /\ calls[2].data = Unparsable

\* The history is the one sent in body, followed by turn.
IsBodyPlus(conv, body, turn) ==
    /\ conv # <<>>
    /\ conv[Len(conv)] = turn
    /\ Stringify(SubSeq(conv, 1, Len(conv) - 1)) = body

\* The step ends activation i on a result: the placeholder holds the
\* rendering of text and the history is the one sent plus the model turn.
EndsWithResult(i, text) ==
    /\ chatBox'[calls[i].div] = Message("model", "innerHTML", parseMarkdown(text))
    /\ OnlyDivChanges(i)
    /\ IsBodyPlus(conversationHelper', calls[i].body, [role |-> "model", text |-> text])

\* C4 as stated: a cycle whose parsed body holds a result string ends with
\* the rendering of that string in the placeholder and a model turn added.
C4_EveryResultString ==
    [][\A i \in DOMAIN calls :
         (Completes(i) /\ calls'[i].data.t = "object"
                       /\ calls'[i].data.result.t = "string")
            => EndsWithResult(i, calls'[i].data.result.s)]_vars

\* C4 as amended: so does a cycle whose parsed body holds a non-empty result
\* string.
C4_NonEmptyResultString ==
    [][\A i \in DOMAIN calls :
         (Completes(i) /\ calls'[i].data.t = "object"
                       /\ calls'[i].data.result.t = "string"
                       /\ calls'[i].data.result.s # <<>>)
            => EndsWithResult(i, calls'[i].data.result.s)]_vars

\* A second cycle has ended on a non-empty result string.
C4_Witness ==
    /\ Len(calls) = 2
    /\ calls[2].pc = "done"
    /\ calls[2].data.t = "object"
    /\ calls[2].data.result.t = "string"
    /\ calls[2].data.result.s # <<>>

\* The step ends activation i on the given notice: the placeholder holds
\* it and the history is still the one that was sent.
EndsWithNotice(i, notice) ==
    /\ chatBox'[calls[i].div] = Message("model", "textContent", notice)
    /\ OnlyDivChanges(i)
    /\ conversationHelper' = conversationHelper
    /\ Stringify(conversationHelper') = calls[i].body
    /\ conversationHelper'[Len(conversationHelper')].role = "user"

\* C5: a cycle whose fetch was rejected or answered with a status that is
\* not ok ends with the failure notice, the history as sent, and the
\* controls enabled.
C5_FailureKeepsHistory ==
    [][\A i \in DOMAIN calls :
         (Completes(i) /\ calls'[i].fetch \in {"rejected", "notOk"})
            => (EndsWithNotice(i, FailedText) /\ ControlsEnabled')]_vars

\* A cycle has ended on a rejected fetch and a later one on a bad status.
C5_Witness ==
    /\ Len(calls) = 2
    /\ calls[1].pc = "done" /\ calls[1].fetch = "rejected"
    /\ calls[2].pc = "done" /\ calls[2].fetch = "notOk"

\* C6: a cycle whose parsed body holds no result string ends with the
\* no-response notice and the history as sent.
C6_NoResultStringIsNoResponse ==
    [][\A i \in DOMAIN calls :
         (Completes(i) /\ calls'[i].data.t \in {"null", "object"}
                       /\ calls'[i].data.result.t # "string")
            => EndsWithNotice(i, NoResponseText)]_vars

\* The positions of the user turns of the history.
UserTurns == {k \in DOMAIN conversationHelper : conversationHelper[k].role = "user"}

\* The position of the i-th user turn.
UserTurn(i) ==
    CHOOSE k \in UserTurns : Cardinality({j \in UserTurns : j <= k}) = i

\* C7: there is one request per user turn of the history, and the body of
\* the i-th is the history up to and including the i-th user turn.
C7_OneRequestFullHistory ==
    /\ Len(calls) = Cardinality(UserTurns)
    /\ \A i \in DOMAIN calls :
           calls[i].body = Stringify(SubSeq(conversationHelper, 1, UserTurn(i)))

\* A second request was sent after a cycle that left no model turn.
C7_Witness ==
    /\ Len(calls) = 2
    /\ Len(conversationHelper) >= 2
    /\ conversationHelper[1].role = "user"
    /\ conversationHelper[2].role = "user"

\* Nothing but white space.
Blank(s) == \A k \in DOMAIN s : IsSpace(s[k])

\* C8: a submit on a blank input changes neither the history, nor the
\* display, nor the controls, nor the requests.
C8_BlankSubmitNoOp ==
    [][(lastEvent' = "submit" /\ Blank(inputValue))
          => UNCHANGED <<conversationHelper, chatBox, inputValue, inputDisabled,
                         submitDisabled, calls>>]_vars

\* A submit was handled on an input of white space.
C8_Witness == lastEvent = "submit" /\ inputValue = <<" ">>

\* C9 as stated: two clicks on the toggle give back the displayed and the
\* persisted theme.
C9_TwiceIsIdentity ==
    /\ ThemeClick(ThemeClick(Theme)).attr = dataTheme
    /\ ThemeClick(ThemeClick(Theme)).stored = storedTheme

\* C9 as amended: two clicks give back the displayed theme and its icon;
\* they give back the persisted theme when there was one, and leave
\* "light", the theme displayed by default, when there was none.
C9_TwiceRestoresDisplayed ==
    /\ ThemeClick(ThemeClick(Theme)).attr = dataTheme
    /\ ThemeClick(ThemeClick(Theme)).icon = toggleText
    /\ ThemeClick(ThemeClick(Theme)).stored =
           (IF storedTheme = NoItem THEN "light" ELSE storedTheme)

\* The toggle was clicked and the dark theme is on.
C9_Witness == lastEvent = "click" /\ dataTheme = "dark" /\ storedTheme = "dark"

\* C10: a step leaves the history as it is or adds one turn at its end.
C10_AppendOnly ==
    [][\/ conversationHelper' = conversationHelper
       \/ /\ Len(conversationHelper') = Len(conversationHelper) + 1
          /\ SubSeq(conversationHelper', 1, Len(conversationHelper)) = conversationHelper]_vars

\* The history holds the turns of two cycles with a result.
C10_Witness ==
    /\ Len(conversationHelper) = 4
    /\ conversationHelper[2].role = "model"
    /\ conversationHelper[4].role = "model"

\* How often the character c stands in s.
Count(s, c) == Cardinality({k \in DOMAIN s : s[k] = c})

\* The markup parseMarkdown generates, and its entity references.
Tags == {StrongOpen, StrongClose, EmOpen, EmClose, LiOpen, LiClose, UlOpen, UlClose,
         POpen, PClose}

Entities == {AmpEntity, LtEntity, GtEntity}

\* In s every & begins an entity reference, every < begins a generated
\* tag and every > ends one.
OnlyGenerated(s) ==
    \A k \in DOMAIN s :
        /\ s[k] = "&" => \E e \in Entities : MatchesAt(s, k, e)
        /\ s[k] = "<" => \E t \in Tags : MatchesAt(s, k, t)
        /\ s[k] = ">" => \E t \in Tags : MatchesAt(s, k - Len(t) + 1, t)

\* C11: behind the first step and through every later one the text holds &,
\* < and > only in entity references and generated tags; the first step
\* leaves no < or > at all; and the returned markup holds exactly one entity
\* reference for each &, < and > of the input.
C11_EscapedThroughout ==
    /\ render.pc \in {"escaped", "bold", "italic", "unordered", "ordered"}
          => /\ OnlyGenerated(render.safeText)
             /\ Count(render.safeText, "&") =
                   Count(render.text, "&") + Count(render.text, "<") + Count(render.text, ">")
    /\ render.pc = "escaped"
          => Count(render.safeText, "<") = 0 /\ Count(render.safeText, ">") = 0
    /\ render.pc \in {"walk", "done"} => OnlyGenerated(render.html)
    /\ render.pc = "done"
          => Count(render.html, "&") =
                Count(render.text, "&") + Count(render.text, "<") + Count(render.text, ">")

\* The call on "&<>" has returned.
C11_Witness == render.pc = "done" /\ render.text = <<"&", "<", ">">>

\* The asterisks of line form one marker at most: a single asterisk or an
\* adjacent pair, with nothing on the line to close it.
OneMarker(line) ==
    LET stars == {k \in DOMAIN line : line[k] = "*"}
    IN  /\ Cardinality(stars) <= 2
        /\ \A j, k \in stars : j - k <= 1

\* No line of text holds a marker and its closing marker.
MarkersUnmatched(text) ==
    \A k \in DOMAIN Split(text) : OneMarker(Split(text)[k])

\* The markup holds no emphasis and all the asterisks of text.
AsterisksLiteral(text, html) ==
    /\ ~Includes(html, StrongOpen)
    /\ ~Includes(html, EmOpen)
    /\ Count(html, "*") = Count(text, "*")

\* C12: a text whose emphasis markers are all unmatched is returned with its
\* asterisks as they are and without any emphasis markup.
C12_UnmatchedStayLiteral ==
    (render.pc = "done" /\ MarkersUnmatched(render.text))
        => AsterisksLiteral(render.text, render.html)

\* What the code does keep: a text with at most one asterisk on each line is
\* returned with its asterisks as they are.
LoneAsterisksStayLiteral ==
    (render.pc = "done" /\ \A k \in DOMAIN Split(render.text) :
                               Count(Split(render.text)[k], "*") <= 1)
        => AsterisksLiteral(render.text, render.html)

\* How often pat occurs in s.
Occurrences(s, pat) == Cardinality({k \in 1..Len(s) : MatchesAt(s, k, pat)})

\* Line k of the walk is a list line.
IsListLine(k) == Includes(render.lines[k], LiOpen)

\* The maximal runs of consecutive list lines, as pairs of first and last line.
ListRuns ==
    {r \in (DOMAIN render.lines) \X (DOMAIN render.lines) :
        /\ r[1] <= r[2]
        /\ \A k \in r[1]..r[2] : IsListLine(k)
        /\ r[1] = 1 \/ ~IsListLine(r[1] - 1)
        /\ r[2] = Len(render.lines) \/ ~IsListLine(r[2] + 1)}

\* The lines a..b, one behind the other.
RECURSIVE ConcatLines(_, _)
ConcatLines(a, b) ==
    IF a > b THEN <<>> ELSE render.lines[a] \o ConcatLines(a + 1, b)

\* C13: the returned markup holds one list opening and one list closing for
\* each maximal run of consecutive list lines, and between them the lines of
\* the run, all of them and nothing else.
C13_OneListPerRun ==
    render.pc = "done" =>
        /\ Occurrences(render.html, UlOpen) = Cardinality(ListRuns)
        /\ Occurrences(render.html, UlClose) = Cardinality(ListRuns)
        /\ \A r \in ListRuns :
               Includes(render.html, UlOpen \o ConcatLines(r[1], r[2]) \o UlClose)

\* The walk went over three list lines in a row.
C13_Witness ==
    /\ render.pc = "done"
    /\ Len(render.lines) = 3
    /\ \A k \in 1..3 : IsListLine(k)

\* List openings less list closings in s.
Depth(s) == Occurrences(s, UlOpen) - Occurrences(s, UlClose)

\* Read from the left, the list wrappers of s alternate, an opening first.
Alternating(s) == \A k \in 0..Len(s) : Depth(Slice(s, 1, k)) \in {0, 1}

\* What a round of the walk on line must add to html, told from the markup
\* alone: a list line goes into an open list, opened if none is; any other
\* line closes an open list, and goes into a paragraph unless it is blank.
RoundAdds(html, line) ==
    LET open == Depth(html) = 1
    IN  IF Includes(line, LiOpen)
        THEN (IF open THEN <<>> ELSE UlOpen) \o line
        ELSE (IF open THEN UlClose ELSE <<>>)
               \o (IF Blank(line) THEN <<>> ELSE POpen \o line \o PClose)

\* C16: all through the walk the list wrappers of the markup alternate, an
\* opening first, and during it inList tells whether a list is open; a round
\* puts a list line into an open list and any other line behind a closed one,
\* a blank line adding nothing but the closing; and the returned markup leaves
\* no list open.
C16_WellFormedGrouping ==
    /\ [](render.pc \in {"walk", "done"} => Alternating(render.html))
    /\ [](render.pc = "walk" => (render.inList <=> Depth(render.html) = 1))
    /\ [](render.pc = "done" => Depth(render.html) = 0)
    /\ [][(render.pc = "walk" /\ render'.pc = "walk")
            => /\ render'.html =
                      render.html \o RoundAdds(render.html, render.lines[render.idx])
               /\ Depth(render'.html) =
                      (IF IsListLine(render.idx) THEN 1 ELSE 0)]_vars

\* The walk went over a paragraph and then two list lines, the last line of
\* the text among them.
C16_Witness ==
    /\ render.pc = "done"
    /\ Len(render.lines) = 3
    /\ ~IsListLine(1) /\ ~Blank(render.lines[1])
    /\ IsListLine(2)
    /\ IsListLine(3)

\* A message div that still shows the pending text.
IsPlaceholder(m) ==
    m.role = "model" /\ m.prop = "textContent" /\ m.value = ThinkingText

\* C14: while a request is outstanding both controls are disabled, and a
\* control is only ever enabled by the step that ends the outstanding cycle,
\* with the placeholder of that cycle replaced.
C14_DisabledWhileOutstanding ==
    /\ [](InFlight # {} => (inputDisabled /\ submitDisabled))
    /\ [][((inputDisabled /\ ~inputDisabled') \/ (submitDisabled /\ ~submitDisabled'))
            => \E i \in DOMAIN calls :
                   /\ Completes(i)
                   /\ InFlight' = {}
                   /\ ~IsPlaceholder(chatBox'[calls[i].div])]_vars

\* The second request was answered and its body is awaited, the controls
\* disabled.
C14_Witness ==
    /\ Len(calls) = 2
    /\ calls[2].pc = "json"
    /\ inputDisabled /\ submitDisabled

\* C15: the display holds a user message and behind it one model message
\* for each accepted submission; the model message shows the pending text
\* exactly while the cycle is under way, no other message does, and none does
\* while the controls are enabled.
C15_PlaceholderTransient ==
    /\ Len(chatBox) = 2 * Len(calls)
    /\ \A i \in DOMAIN calls :
           /\ calls[i].div = 2 * i
           /\ chatBox[2 * i - 1].role = "user"
           /\ chatBox[2 * i].role = "model"
           /\ IsPlaceholder(chatBox[2 * i]) <=> i \in InFlight
    /\ \A k \in DOMAIN chatBox :
           IsPlaceholder(chatBox[k]) => \E i \in InFlight : calls[i].div = k
    /\ ControlsEnabled => \A k \in DOMAIN chatBox : ~IsPlaceholder(chatBox[k])

\* Two cycles are over, the first with the no-response notice in place of
\* its placeholder and the second with rendered markup.
C15_Witness ==
    /\ Idle /\ ControlsEnabled
    /\ Len(chatBox) = 4
    /\ chatBox[2].value = NoResponseText
    /\ chatBox[4].prop = "innerHTML"

\* The positions of the model turns of the history.
ModelTurns == {k \in DOMAIN conversationHelper : conversationHelper[k].role = "model"}

\* C17: every model turn of the history stands right behind a user turn, and
\* the model turns are no more than the user turns.
C17_ModelFollowsUser ==
    /\ \A k \in ModelTurns : k > 1 /\ conversationHelper[k - 1].role = "user"
    /\ Cardinality(ModelTurns) <= Cardinality(UserTurns)

\* Two user turns in a row, then a model turn.
C17_Witness ==
    /\ Len(conversationHelper) = 3
    /\ conversationHelper[1].role = "user"
    /\ conversationHelper[2].role = "user"
    /\ conversationHelper[3].role = "model"

====
